---- MODULE Spec2Model ----
(***************************************************************************)
(* Model of the order cache of AssetBuyer                                  *)
(* (packages/asset-buyer/src/asset_buyer.ts).                              *)
(*                                                                         *)
(* The program is single-threaded and cooperative: an async method runs    *)
(* synchronously up to its next await, so every action below is one such   *)
(* synchronous stretch.  Between two actions the clock may advance and     *)
(* other calls may run.                                                    *)
(***************************************************************************)
EXTENDS Integers, Sequences, FiniteSets, Bags, TLC

\* ------------------------------------------------------------------ bounds
MaxTime == 2        \* Date.now() ranges over 0..MaxTime
MaxTasks == 2       \* getOrdersAndFillableAmountsAsync invocations in flight
MaxOrders == 2      \* orders of a cached order set a quote is computed from
MaxSteps == 3       \* sampled actions the simulation keeps a record of

\* --------------------------------------------------------------- constants
\* this.orderRefreshIntervalMs, set by the constructor from the options
orderRefreshIntervalMs == 1

\* this._contractWrappers.exchange.getZRXAssetData()
zrxTokenAssetData == "0xZ"

\* asset identifiers a caller may pass; "bad" does not decode
MakerAssetDatas == {"0xA", "0xZ", "bad"}
TakerAssetDatas == {"0xW", "bad"}

\* identifiers that hold the separator of the cache key, for the case
\* that the encoding of asset datas lets such identifiers decode
SeparatorAssetDatas == {"0xA_0xB", "0xB_0xW"}

\* assetDataUtils.decodeAssetDataOrThrow: TRUE when it returns, FALSE when
\* it throws
decodeAssetDataOrThrow(assetData) ==
    assetData \in {"0xA", "0xZ", "0xW"} \cup SeparatorAssetDatas

\* _getOrdersEntryMapKey keyed by the maker asset alone
_getOrdersEntryMapKey_MakerOnly(makerAssetData, takerAssetData) ==
    makerAssetData \o "_"

\* AssetBuyer._getOrdersEntryMapKey
_getOrdersEntryMapKey(makerAssetData, takerAssetData) ==
    makerAssetData \o "_" \o takerAssetData

\* ------------------------------------------------------------------ orders
\* a signed order as the provider returns it, with the fillable amount the
\* order validator will report for it
Order(makerAssetData, takerAssetData, fillable) ==
    [makerAssetData |-> makerAssetData, takerAssetData |-> takerAssetData,
     makerAssetAmount |-> 2, takerAssetAmount |-> 4, takerFee |-> 1,
     fillable |-> fillable]

\* an asset other than the one asked for, for a provider that breaks its API
OtherAsset(assetData) == IF assetData = "0xA" THEN "0xZ" ELSE "0xA"

\* what orderProvider.getOrdersAsync may resolve to for a request: no
\* order, a fillable and an unfillable order of the pair, or an order of the
\* pair with an order of another pair
ProviderResponses(makerAssetData, takerAssetData) ==
    { << >>,
      << Order(makerAssetData, takerAssetData, 2),
         Order(makerAssetData, takerAssetData, 0) >>,
      << Order(makerAssetData, takerAssetData, 1),
         Order(OtherAsset(makerAssetData), takerAssetData, 1) >> }

\* orderProviderResponseProcessor.throwIfInvalidResponse: TRUE when it throws
throwIfInvalidResponse(response, makerAssetData, takerAssetData) ==
    \E i \in 1..Len(response) :
        \/ response[i].makerAssetData # makerAssetData
        \/ response[i].takerAssetData # takerAssetData

IsFillable(order) == order.fillable > 0

Amounts(orders) == [i \in 1..Len(orders) |-> orders[i].fillable]

\* orderProviderResponseProcessor.processAsync: unfillable orders are
\* dropped, the others keep the provider's order and get their amount
processAsync(response) ==
    [orders |-> SelectSeq(response, IsFillable),
     remainingFillableMakerAssetAmounts |->
        Amounts(SelectSeq(response, IsFillable))]

\* constants.EMPTY_ORDERS_AND_FILLABLE_AMOUNTS
EMPTY_ORDERS_AND_FILLABLE_AMOUNTS ==
    [orders |-> << >>, remainingFillableMakerAssetAmounts |-> << >>]

\* -------------------------------------------------- buyQuoteCalculator
RECURSIVE SumTo(_, _)
SumTo(f, n) == IF n = 0 THEN 0 ELSE f[n] + SumTo(f, n - 1)

Min(a, b) == IF a < b THEN a ELSE b

\* x / y rounded up
CeilDiv(x, y) == (x + y - 1) \div y

\* findOrdersThatCover stopping one order late: it goes on while nothing
\* is left over
RECURSIVE findOrdersThatCover_OneMore(_, _, _)
findOrdersThatCover_OneMore(amounts, taken, remaining) ==
    IF remaining < 0 \/ taken = Len(amounts)
    THEN [taken |-> taken, remaining |-> remaining]
    ELSE findOrdersThatCover_OneMore(amounts, taken + 1,
                                     remaining - amounts[taken + 1])

\* the greedy walk: the orders are taken in the order given, each for its
\* fillable amount, until the amount asked for is met or the orders are
\* exhausted; what is left to fill is positive when they did not suffice
RECURSIVE findOrdersThatCover(_, _, _)
findOrdersThatCover(amounts, taken, remaining) ==
    IF remaining <= 0 \/ taken = Len(amounts)
    THEN [taken |-> taken, remaining |-> remaining]
    ELSE findOrdersThatCover(amounts, taken + 1,
                             remaining - amounts[taken + 1])

\* what is filled of each of the first taken orders to reach the target
Fills(amounts, taken, target) ==
    [i \in 1..taken |-> Min(amounts[i], target - SumTo(amounts, i - 1))]

\* the taker asset paid for these fills, each order at its own rate
TakerCost(orders, fills) ==
    SumTo([i \in 1..Len(fills) |->
              CeilDiv(fills[i] * orders[i].takerAssetAmount,
                      orders[i].makerAssetAmount)], Len(fills))

\* the fees owed for these fills, each order's takerFee in proportion
FeesOwed(orders, fills) ==
    SumTo([i \in 1..Len(fills) |->
              CeilDiv(fills[i] * orders[i].takerFee,
                      orders[i].makerAssetAmount)], Len(fills))

\* a cost inflated by the slippage fraction, given in percent
Inflated(cost, slippagePercentage) ==
    (cost * (100 + slippagePercentage)) \div 100

\* type BuyQuote, and the error thrown instead of it if any
BuyQuote(error, orders, feeOrders, bestCase, worstCase) ==
    [error |-> error, orders |-> orders, feeOrders |-> feeOrders,
     bestCaseQuoteInfo |-> bestCase, worstCaseQuoteInfo |-> worstCase]

NoBuyQuote == BuyQuote("", << >>, << >>, 0, 0)

\* calculate with the slippage taken off the cost
calculate_Deflates(ordersAndFillableAmounts, feeOrdersAndFillableAmounts, assetBuyAmount, slippagePercentage, isMakerAssetZrxToken) ==
    LET orders == ordersAndFillableAmounts.orders
        amounts == ordersAndFillableAmounts.remainingFillableMakerAssetAmounts
        walk == findOrdersThatCover(amounts, 0, assetBuyAmount)
        fills == Fills(amounts, walk.taken, assetBuyAmount)
        feeOrders == feeOrdersAndFillableAmounts.orders
        feeAmounts ==
            feeOrdersAndFillableAmounts.remainingFillableMakerAssetAmounts
        feesOwed == IF isMakerAssetZrxToken THEN 0
                    ELSE FeesOwed(orders, fills)
        feeWalk == findOrdersThatCover(feeAmounts, 0, feesOwed)
        feeFills == Fills(feeAmounts, feeWalk.taken, feesOwed)
        total == TakerCost(orders, fills) + TakerCost(feeOrders, feeFills)
    IN  IF walk.remaining > 0 \/ feeWalk.remaining > 0
        THEN [NoBuyQuote EXCEPT !.error = "InsufficientLiquidity"]
        ELSE BuyQuote("", SubSeq(orders, 1, walk.taken),
                      SubSeq(feeOrders, 1, feeWalk.taken), total,
                      (total * (100 - slippagePercentage)) \div 100)

\* buyQuoteCalculator.calculate: the greedy walk over the orders, the same
\* walk over the fee orders for the fees owed on what was selected (none
\* when the asset bought is the fee asset), the cost of both as the best
\* case and that cost inflated by the slippage as the worst case
calculate(ordersAndFillableAmounts, feeOrdersAndFillableAmounts, assetBuyAmount, slippagePercentage, isMakerAssetZrxToken) ==
    LET orders == ordersAndFillableAmounts.orders
        amounts == ordersAndFillableAmounts.remainingFillableMakerAssetAmounts
        walk == findOrdersThatCover(amounts, 0, assetBuyAmount)
        fills == Fills(amounts, walk.taken, assetBuyAmount)
        feeOrders == feeOrdersAndFillableAmounts.orders
        feeAmounts ==
            feeOrdersAndFillableAmounts.remainingFillableMakerAssetAmounts
        feesOwed == IF isMakerAssetZrxToken THEN 0
                    ELSE FeesOwed(orders, fills)
        feeWalk == findOrdersThatCover(feeAmounts, 0, feesOwed)
        feeFills == Fills(feeAmounts, feeWalk.taken, feesOwed)
        total == TakerCost(orders, fills) + TakerCost(feeOrders, feeFills)
    IN  IF walk.remaining > 0 \/ feeWalk.remaining > 0
        THEN [NoBuyQuote EXCEPT !.error = "InsufficientLiquidity"]
        ELSE BuyQuote("", SubSeq(orders, 1, walk.taken),
                      SubSeq(feeOrders, 1, feeWalk.taken), total,
                      Inflated(total, slippagePercentage))

\* the amounts a caller may ask a quote for: up to one more than the most
\* an order set of MaxOrders orders can fill
BuyAmounts == 1..(2 * MaxOrders + 1)

\* the slippagePercentage options of a quote, in percent
SlippagePercentages == {0, 20, 50}

\* ------------------------------------------------------------------- state
VARIABLES
    now,              \* Date.now()
    ordersEntryMap,   \* AssetBuyer._ordersEntryMap: key -> OrdersEntry
    tasks,            \* bag of the getOrdersAndFillableAmountsAsync
                      \* invocations that run or whose promise is awaited
    call,             \* the getBuyQuoteAsync, getLiquidity... or
                      \* isTakerMaker... call in progress, if any
    called,           \* the getOrdersAndFillableAmountsAsync calls made in
                      \* the last step, with their arguments
    settled,          \* the invocations that settled in the last step
    finished,         \* what the call that ended in the last step gave
    sim               \* the PoolManagementSimulation of the fuzz test

vars == <<now, ordersEntryMap, tasks, call, called, settled, finished, sim>>

\* the variables of the AssetBuyer
buyerVars == <<now, ordersEntryMap, tasks, call, called, settled, finished>>

\* a Simulation: where its generator stands, the actions started and not
\* settled, the actions sampled so far (the first MaxSteps of them), the
\* parity of their number, how the last await ended, the promise fuzzAsync
\* returned and the error thrown
Simulation(pc, inProgress, log, parity, outcome, fuzzAsync, error) ==
    [pc |-> pc, inProgress |-> inProgress, log |-> log, parity |-> parity,
     outcome |-> outcome, fuzzAsync |-> fuzzAsync, error |-> error]

\* new PoolManagementSimulation(...), line 58
NewSimulation == Simulation("created", {}, << >>, 0, "", "notCalled", "")

\* interface OrdersEntry
OrdersEntry(ordersAndFillableAmounts, lastRefreshTime) ==
    [ordersAndFillableAmounts |-> ordersAndFillableAmounts,
     lastRefreshTime |-> lastRefreshTime]

\* obj[key] = value on an ObjectMap
MapSet(map, key, value) ==
    [k \in DOMAIN map \cup {key} |-> IF k = key THEN value ELSE map[k]]

\* shouldRefresh with the comparison of line 360 turned round
shouldRefresh_Reversed(makerAssetData, takerAssetData, shouldForceOrderRefresh) ==
    LET key == _getOrdersEntryMapKey(makerAssetData, takerAssetData)
    IN  \/ key \notin DOMAIN ordersEntryMap
        \/ shouldForceOrderRefresh
        \/ ordersEntryMap[key].lastRefreshTime + orderRefreshIntervalMs > now

\* shouldRefresh without the test of line 358
shouldRefresh_IgnoresForce(makerAssetData, takerAssetData, shouldForceOrderRefresh) ==
    LET key == _getOrdersEntryMapKey(makerAssetData, takerAssetData)
    IN  \/ key \notin DOMAIN ordersEntryMap
        \/ ordersEntryMap[key].lastRefreshTime + orderRefreshIntervalMs < now

\* shouldRefresh with <= for the < of line 360
shouldRefresh_AtInterval(makerAssetData, takerAssetData, shouldForceOrderRefresh) ==
    LET key == _getOrdersEntryMapKey(makerAssetData, takerAssetData)
    IN  \/ key \notin DOMAIN ordersEntryMap
        \/ shouldForceOrderRefresh
        \/ ordersEntryMap[key].lastRefreshTime + orderRefreshIntervalMs
                <= now

\* the condition of lines 356-360
shouldRefresh(makerAssetData, takerAssetData, shouldForceOrderRefresh) ==
    LET key == _getOrdersEntryMapKey(makerAssetData, takerAssetData)
    IN  \/ key \notin DOMAIN ordersEntryMap
        \/ shouldForceOrderRefresh
        \/ ordersEntryMap[key].lastRefreshTime + orderRefreshIntervalMs < now

\* one invocation of getOrdersAndFillableAmountsAsync: its pair, where it
\* stands, the getOrdersAsync requests it has issued, the response it holds
\* and what it resolved to or threw.  slot is the place its promise has in
\* the call that awaits it ("primary" or "fee" in the Promise.all of
\* getBuyQuoteAsync, "orders" in getLiquidity...), "self" when no call in
\* progress awaits it
Invocation(makerAssetData, takerAssetData, slot, pc, requests, result, error) ==
    [makerAssetData |-> makerAssetData, takerAssetData |-> takerAssetData,
     slot |-> slot, pc |-> pc, requests |-> requests, response |-> << >>,
     result |-> result, error |-> error]

\* StartInvocation with the decoding of lines 348-349 moved after the
\* cache lookup and the request
StartInvocation_DecodesLate(makerAssetData, takerAssetData, shouldForceOrderRefresh, slot) ==
    IF ~shouldRefresh(makerAssetData, takerAssetData,
                      shouldForceOrderRefresh)
    THEN Invocation(makerAssetData, takerAssetData, slot, "resolved", 0,
                    ordersEntryMap[_getOrdersEntryMapKey(makerAssetData,
                        takerAssetData)].ordersAndFillableAmounts, "")
    ELSE Invocation(makerAssetData, takerAssetData, slot, "awaitResponse",
                    1, EMPTY_ORDERS_AND_FILLABLE_AMOUNTS, "")

\* getOrdersAndFillableAmountsAsync up to its first await (lines 346-374):
\* the invocation as it stands when the synchronous part has run
StartInvocation(makerAssetData, takerAssetData, shouldForceOrderRefresh, slot) ==
    IF ~decodeAssetDataOrThrow(makerAssetData)
       \/ ~decodeAssetDataOrThrow(takerAssetData)
    THEN Invocation(makerAssetData, takerAssetData, slot, "rejected", 0,
                    EMPTY_ORDERS_AND_FILLABLE_AMOUNTS, "DecodeError")
    ELSE IF ~shouldRefresh(makerAssetData, takerAssetData,
                           shouldForceOrderRefresh)
    THEN Invocation(makerAssetData, takerAssetData, slot, "resolved", 0,
                    ordersEntryMap[_getOrdersEntryMapKey(makerAssetData,
                        takerAssetData)].ordersAndFillableAmounts, "")
    ELSE Invocation(makerAssetData, takerAssetData, slot, "awaitResponse",
                    1, EMPTY_ORDERS_AND_FILLABLE_AMOUNTS, "")

IsSettled(task) == task.pc \in {"resolved", "rejected"}

IsRunning(task) == task.pc \in {"awaitResponse", "awaitProcess"}

\* a call of getOrdersAndFillableAmountsAsync as the last step made it
CallEvent(task, shouldForceOrderRefresh) ==
    [task |-> task, shouldForceOrderRefresh |-> shouldForceOrderRefresh]

\* the invocations in the bag
Running == BagToSet(tasks)

One(task) == SetToBag({task})

\* the bag after an invocation has moved on: a settled one that nobody
\* awaits is gone
Moved(bag, old, new) ==
    IF IsSettled(new) /\ new.slot = "self"
    THEN bag (-) One(old)
    ELSE (bag (-) One(old)) (+) One(new)

\* the invocations whose promise the call in progress awaits
Awaited == {task \in BagToSet(tasks) : task.slot # "self"}

\* the bag once the call in progress stops awaiting: the settled promises
\* are dropped, the invocations still running go on unobserved
Detached ==
    (tasks (-) SetToBag(Awaited))
        (+) SetToBag({[task EXCEPT !.slot = "self"] :
                         task \in {a \in Awaited : IsRunning(a)}})

\* no call in progress
NoCall ==
    [op |-> "none", pc |-> "idle", makerAssetData |-> "",
     takerAssetData |-> "", shouldForceOrderRefresh |-> FALSE,
     requests |-> 0]

\* a call in progress: the method, where it stands, its arguments and the
\* getOrdersAsync requests issued on its behalf so far
Call(op, pc, makerAssetData, takerAssetData, shouldForceOrderRefresh, requests) ==
    [op |-> op, pc |-> pc, makerAssetData |-> makerAssetData,
     takerAssetData |-> takerAssetData,
     shouldForceOrderRefresh |-> shouldForceOrderRefresh,
     requests |-> requests]

\* interface LiquidityForAssetData
LiquidityForAssetData(makerTokens, takerTokens) ==
    [makerTokensAvailableInBaseUnits |-> makerTokens,
     takerTokensAvailableInBaseUnits |-> takerTokens]

\* no call ended in the last step
NoFinish ==
    [op |-> "none", makerAssetData |-> "", takerAssetData |-> "",
     shouldForceOrderRefresh |-> FALSE, requests |-> 0,
     makerAssetBuyAmount |-> 0, slippagePercentage |-> 0,
     outcome |-> "", error |-> "", calculateCalls |-> << >>,
     buyQuote |-> NoBuyQuote,
     assetPairs |-> << >>, available |-> FALSE,
     liquidity |-> LiquidityForAssetData(0, 0)]

\* a call ends: what it threw or returned
Finish(c, outcome, error) ==
    [NoFinish EXCEPT !.op = c.op,
                     !.makerAssetData = c.makerAssetData,
                     !.takerAssetData = c.takerAssetData,
                     !.shouldForceOrderRefresh = c.shouldForceOrderRefresh,
                     !.requests = c.requests,
                     !.outcome = outcome, !.error = error]

Init ==
    /\ now = 0
    /\ ordersEntryMap = << >>
    /\ tasks = EmptyBag
    /\ call = NoCall
    /\ called = {}
    /\ settled = {}
    /\ finished = NoFinish
    /\ sim = NewSimulation

\* ------------------------------------- getOrdersAndFillableAmountsAsync
\* a caller invokes the public method getOrdersAndFillableAmountsAsync
GetOrdersAndFillableAmounts(makerAssetData, takerAssetData, shouldForceOrderRefresh) ==
    /\ BagCardinality(tasks) < MaxTasks
    /\ LET task == StartInvocation(makerAssetData, takerAssetData,
                       shouldForceOrderRefresh, "self")
       IN  /\ called' = {CallEvent(task, shouldForceOrderRefresh)}
           /\ settled' = IF IsSettled(task) THEN {task} ELSE {}
           /\ tasks' = IF IsSettled(task) THEN tasks ELSE tasks (+) One(task)
    /\ finished' = NoFinish
    /\ UNCHANGED <<now, ordersEntryMap, call, sim>>

\* an invocation settles
Settle(old, new) ==
    /\ settled' = {new}
    /\ tasks' = Moved(tasks, old, new)

\* GetOrdersResolves without the validation of line 377
GetOrdersResolves_Unchecked(task, response) ==
    /\ task \in Running
    /\ task.pc = "awaitResponse"
    /\ response \in ProviderResponses(task.makerAssetData,
                                      task.takerAssetData)
    /\ tasks' = Moved(tasks, task, [task EXCEPT !.pc = "awaitProcess",
                                                !.response = response])
    /\ settled' = {}
    /\ called' = {}
    /\ finished' = NoFinish
    /\ UNCHANGED <<now, ordersEntryMap, call, sim>>

\* orderProvider.getOrdersAsync resolves (lines 374-385)
GetOrdersResolves(task, response) ==
    /\ task \in Running
    /\ task.pc = "awaitResponse"
    /\ response \in ProviderResponses(task.makerAssetData,
                                      task.takerAssetData)
    /\ IF throwIfInvalidResponse(response, task.makerAssetData,
                                 task.takerAssetData)
       THEN Settle(task, [task EXCEPT !.pc = "rejected",
                              !.error = "InvalidOrderProviderResponse"])
       ELSE /\ tasks' = Moved(tasks, task,
                              [task EXCEPT !.pc = "awaitProcess",
                                           !.response = response])
            /\ settled' = {}
    /\ called' = {}
    /\ finished' = NoFinish
    /\ UNCHANGED <<now, ordersEntryMap, call, sim>>

\* GetOrdersRejects with one retry of the request of line 374
GetOrdersRejects_Retries(task) ==
    /\ task \in Running
    /\ task.pc = "awaitResponse"
    /\ IF task.requests < 2
       THEN /\ tasks' = Moved(tasks, task, [task EXCEPT !.requests = 2])
            /\ settled' = {}
       ELSE Settle(task, [task EXCEPT !.pc = "rejected",
                              !.error = "OrderProviderError"])
    /\ called' = {}
    /\ finished' = NoFinish
    /\ UNCHANGED <<now, ordersEntryMap, call, sim>>

\* orderProvider.getOrdersAsync rejects (line 374)
GetOrdersRejects(task) ==
    /\ task \in Running
    /\ task.pc = "awaitResponse"
    /\ Settle(task, [task EXCEPT !.pc = "rejected",
                         !.error = "OrderProviderError"])
    /\ called' = {}
    /\ finished' = NoFinish
    /\ UNCHANGED <<now, ordersEntryMap, call, sim>>

\* StoredEntryMap adding the new orders to those of the entry there is
StoredEntryMap_Merges(task, ordersAndFillableAmounts) ==
    LET key == _getOrdersEntryMapKey(task.makerAssetData,
                                     task.takerAssetData)
        old == IF key \in DOMAIN ordersEntryMap
               THEN ordersEntryMap[key].ordersAndFillableAmounts
               ELSE EMPTY_ORDERS_AND_FILLABLE_AMOUNTS
    IN  MapSet(ordersEntryMap, key,
               OrdersEntry(
                 [orders |-> old.orders \o ordersAndFillableAmounts.orders,
                  remainingFillableMakerAssetAmounts |->
                    old.remainingFillableMakerAssetAmounts \o
                    ordersAndFillableAmounts.remainingFillableMakerAssetAmounts],
                 now))

\* StoredEntryMap leaving the lastRefreshTime of an entry there is as it
\* was
StoredEntryMap_KeepsTimestamp(task, ordersAndFillableAmounts) ==
    LET key == _getOrdersEntryMapKey(task.makerAssetData,
                                     task.takerAssetData)
    IN  MapSet(ordersEntryMap, key,
               OrdersEntry(ordersAndFillableAmounts,
                           IF key \in DOMAIN ordersEntryMap
                           THEN ordersEntryMap[key].lastRefreshTime
                           ELSE now))

\* StoredEntryMap putting the time of the refresh on every entry of the map
StoredEntryMap_StampsAll(task, ordersAndFillableAmounts) ==
    LET key == _getOrdersEntryMapKey(task.makerAssetData,
                                     task.takerAssetData)
    IN  [k \in DOMAIN ordersEntryMap \cup {key} |->
            IF k = key THEN OrdersEntry(ordersAndFillableAmounts, now)
            ELSE OrdersEntry(ordersEntryMap[k].ordersAndFillableAmounts,
                             now)]

\* StoredEntryMap keeping an empty order set out of the map
StoredEntryMap_SkipsEmpty(task, ordersAndFillableAmounts) ==
    IF Len(ordersAndFillableAmounts.orders) = 0
    THEN ordersEntryMap
    ELSE MapSet(ordersEntryMap,
                _getOrdersEntryMapKey(task.makerAssetData,
                                      task.takerAssetData),
                OrdersEntry(ordersAndFillableAmounts, now))

\* the map after lines 386-391
StoredEntryMap(task, ordersAndFillableAmounts) ==
    MapSet(ordersEntryMap,
           _getOrdersEntryMapKey(task.makerAssetData, task.takerAssetData),
           OrdersEntry(ordersAndFillableAmounts, now))

\* processAsync resolves (lines 380-392)
ProcessResolves(task) ==
    /\ task \in Running
    /\ task.pc = "awaitProcess"
    /\ LET ordersAndFillableAmounts == processAsync(task.response)
       IN  /\ ordersEntryMap' =
                StoredEntryMap(task, ordersAndFillableAmounts)
           /\ Settle(task, [task EXCEPT !.pc = "resolved",
                                !.response = << >>,
                                !.result = ordersAndFillableAmounts])
    /\ called' = {}
    /\ finished' = NoFinish
    /\ UNCHANGED <<now, call, sim>>

\* ProcessRejects dropping the entry of the key when the processing fails
ProcessRejects_DropsEntry(task) ==
    /\ task \in Running
    /\ task.pc = "awaitProcess"
    /\ Settle(task, [task EXCEPT !.pc = "rejected", !.response = << >>,
                         !.error = "OrderValidatorError"])
    /\ ordersEntryMap' =
         [key \in DOMAIN ordersEntryMap \
                    {_getOrdersEntryMapKey(task.makerAssetData,
                                           task.takerAssetData)}
            |-> ordersEntryMap[key]]
    /\ called' = {}
    /\ finished' = NoFinish
    /\ UNCHANGED <<now, call, sim>>

\* processAsync rejects (line 380)
ProcessRejects(task) ==
    /\ task \in Running
    /\ task.pc = "awaitProcess"
    /\ Settle(task, [task EXCEPT !.pc = "rejected", !.response = << >>,
                         !.error = "OrderValidatorError"])
    /\ called' = {}
    /\ finished' = NoFinish
    /\ UNCHANGED <<now, ordersEntryMap, call, sim>>

\* Tick for a clock that may also be set back
Tick_GoesBack ==
    /\ \E t \in {now - 1, now + 1} :
          /\ t \in 0..MaxTime
          /\ now' = t
    /\ called' = {}
    /\ settled' = {}
    /\ finished' = NoFinish
    /\ UNCHANGED <<ordersEntryMap, tasks, call, sim>>

\* the clock advances
Tick ==
    /\ now < MaxTime
    /\ now' = now + 1
    /\ called' = {}
    /\ settled' = {}
    /\ finished' = NoFinish
    /\ UNCHANGED <<ordersEntryMap, tasks, call, sim>>

\* the steps of the invocations in flight, and the clock
Progress ==
    \/ \E task \in Running :
            \E r \in ProviderResponses(task.makerAssetData,
                                       task.takerAssetData) :
                GetOrdersResolves(task, r)
    \/ \E task \in Running : GetOrdersRejects(task)
    \/ \E task \in Running : ProcessResolves(task)
    \/ \E task \in Running : ProcessRejects(task)
    \/ Tick

\* ------------------------------------------------------- getBuyQuoteAsync
\* the arguments of one buyQuoteCalculator.calculate invocation
CalculateCall(ordersAndFillableAmounts, feeOrdersAndFillableAmounts, makerAssetBuyAmount, slippagePercentage, isMakerAssetZrxToken) ==
    [ordersAndFillableAmounts |-> ordersAndFillableAmounts,
     feeOrdersAndFillableAmounts |-> feeOrdersAndFillableAmounts,
     makerAssetBuyAmount |-> makerAssetBuyAmount,
     slippagePercentage |-> slippagePercentage,
     isMakerAssetZrxToken |-> isMakerAssetZrxToken]

\* lines 153-163 once the two order sets are there: what the call throws
\* or returns
QuoteOutcome(c, ordersAndFillableAmounts, feeOrdersAndFillableAmounts, makerAssetBuyAmount, slippagePercentage, isMakerAssetZrxToken) ==
    LET asked == [Finish(c, "", "") EXCEPT
                     !.makerAssetBuyAmount = makerAssetBuyAmount,
                     !.slippagePercentage = slippagePercentage]
        buyQuote == calculate(ordersAndFillableAmounts,
                              feeOrdersAndFillableAmounts,
                              makerAssetBuyAmount, slippagePercentage,
                              isMakerAssetZrxToken)
        calculated ==
            [asked EXCEPT !.calculateCalls =
                << CalculateCall(ordersAndFillableAmounts,
                                 feeOrdersAndFillableAmounts,
                                 makerAssetBuyAmount, slippagePercentage,
                                 isMakerAssetZrxToken) >>]
    IN  IF Len(ordersAndFillableAmounts.orders) = 0
        THEN [asked EXCEPT !.outcome = "threw",
                           !.error = "AssetUnavailable"]
        ELSE IF buyQuote.error # ""
        THEN [calculated EXCEPT !.outcome = "threw",
                                !.error = buyQuote.error]
        ELSE [calculated EXCEPT !.outcome = "returned",
                                !.buyQuote = buyQuote]

\* GetBuyQuote awaiting the primary pair before it asks for the fee pair:
\* up to its first await it has started the primary invocation only
GetBuyQuote_AwaitsPrimaryFirst(makerAssetData, takerAssetData, shouldForceOrderRefresh) ==
    /\ call = NoCall
    /\ LET primary == StartInvocation(makerAssetData, takerAssetData,
                          shouldForceOrderRefresh, "primary")
       IN  /\ BagCardinality(tasks) + 1 <= MaxTasks
           /\ tasks' = tasks (+) One(primary)
           /\ called' = {CallEvent(primary, shouldForceOrderRefresh)}
           /\ settled' = {task \in {primary} : IsSettled(task)}
           /\ call' = Call("getBuyQuoteAsync", "awaitAll", makerAssetData,
                           takerAssetData, shouldForceOrderRefresh,
                           primary.requests)
    /\ finished' = NoFinish
    /\ UNCHANGED <<now, ordersEntryMap, sim>>

\* GetBuyQuote with the conditional of lines 148-150 left out: the fee
\* pair is asked for whatever the asset bought is
GetBuyQuote_AlwaysFee(makerAssetData, takerAssetData, shouldForceOrderRefresh) ==
    /\ call = NoCall
    /\ LET primary == StartInvocation(makerAssetData, takerAssetData,
                          shouldForceOrderRefresh, "primary")
           fee == StartInvocation(zrxTokenAssetData, takerAssetData,
                      shouldForceOrderRefresh, "fee")
       IN  /\ BagCardinality(tasks) + 2 <= MaxTasks
           /\ tasks' = tasks (+) SetToBag({primary, fee})
           /\ called' = {CallEvent(task, shouldForceOrderRefresh) :
                            task \in {primary, fee}}
           /\ settled' = {task \in {primary, fee} : IsSettled(task)}
           /\ call' = Call("getBuyQuoteAsync", "awaitAll", makerAssetData,
                           takerAssetData, shouldForceOrderRefresh,
                           primary.requests + fee.requests)
    /\ finished' = NoFinish
    /\ UNCHANGED <<now, ordersEntryMap, sim>>

\* getBuyQuoteAsync up to the await of Promise.all (lines 132-152): both
\* invocations run their synchronous part, the primary one first
GetBuyQuote(makerAssetData, takerAssetData, shouldForceOrderRefresh) ==
    /\ call = NoCall
    /\ LET isMakerAssetZrxToken == makerAssetData = zrxTokenAssetData
           primary == StartInvocation(makerAssetData, takerAssetData,
                          shouldForceOrderRefresh, "primary")
           fee == StartInvocation(zrxTokenAssetData, takerAssetData,
                      shouldForceOrderRefresh, "fee")
           started == IF isMakerAssetZrxToken THEN {primary}
                      ELSE {primary, fee}
       IN  /\ BagCardinality(tasks) + Cardinality(started) <= MaxTasks
           /\ tasks' = tasks (+) SetToBag(started)
           /\ called' = {CallEvent(task, shouldForceOrderRefresh) :
                            task \in started}
           /\ settled' = {task \in started : IsSettled(task)}
           /\ call' = Call("getBuyQuoteAsync", "awaitAll", makerAssetData,
                           takerAssetData, shouldForceOrderRefresh,
                           IF isMakerAssetZrxToken THEN primary.requests
                           ELSE primary.requests + fee.requests)
    /\ finished' = NoFinish
    /\ UNCHANGED <<now, ordersEntryMap, sim>>

\* Promise.all rejects as soon as one of its promises has rejected
\* (line 146): getBuyQuoteAsync throws that error
GetBuyQuoteRejects(task) ==
    /\ call.op = "getBuyQuoteAsync"
    /\ task \in Awaited
    /\ task.pc = "rejected"
    /\ finished' = Finish(call, "threw", task.error)
    /\ tasks' = Detached
    /\ call' = NoCall
    /\ called' = {}
    /\ settled' = {}
    /\ UNCHANGED <<now, ordersEntryMap, sim>>

\* the value a settled promise of the call in progress resolved to
Resolved(slot) ==
    (CHOOSE task \in Awaited : task.slot = slot).result

\* GetBuyQuoteResolves without the test of lines 153-155
GetBuyQuoteResolves_NoEmptyCheck(makerAssetBuyAmount, slippagePercentage) ==
    /\ call.op = "getBuyQuoteAsync"
    /\ \A task \in Awaited : task.pc = "resolved"
    /\ LET isMakerAssetZrxToken == call.makerAssetData = zrxTokenAssetData
           feeOrdersAndFillableAmounts ==
               IF isMakerAssetZrxToken
               THEN EMPTY_ORDERS_AND_FILLABLE_AMOUNTS
               ELSE Resolved("fee")
       IN  finished' =
             [Finish(call, "returned", "") EXCEPT !.calculateCalls =
                << CalculateCall(Resolved("primary"),
                                 feeOrdersAndFillableAmounts,
                                 makerAssetBuyAmount, slippagePercentage,
                                 isMakerAssetZrxToken) >>]
    /\ tasks' = Detached
    /\ call' = NoCall
    /\ called' = {}
    /\ settled' = {}
    /\ UNCHANGED <<now, ordersEntryMap, sim>>

\* GetBuyQuoteResolves handing calculate the two order sets in the wrong
\* places
GetBuyQuoteResolves_SwapsOrderSets(makerAssetBuyAmount, slippagePercentage) ==
    /\ call.op = "getBuyQuoteAsync"
    /\ \A task \in Awaited : task.pc = "resolved"
    /\ LET isMakerAssetZrxToken == call.makerAssetData = zrxTokenAssetData
           feeOrdersAndFillableAmounts ==
               IF isMakerAssetZrxToken
               THEN EMPTY_ORDERS_AND_FILLABLE_AMOUNTS
               ELSE Resolved("fee")
       IN  finished' = QuoteOutcome(call, feeOrdersAndFillableAmounts,
                                    Resolved("primary"),
                                    makerAssetBuyAmount, slippagePercentage,
                                    isMakerAssetZrxToken)
    /\ tasks' = Detached
    /\ call' = NoCall
    /\ called' = {}
    /\ settled' = {}
    /\ UNCHANGED <<now, ordersEntryMap, sim>>

\* Promise.all resolves once all its promises have (lines 146-163).  The
\* arguments makerAssetBuyAmount and slippagePercentage of the call are
\* read at line 156 only, so they are drawn here
GetBuyQuoteResolves(makerAssetBuyAmount, slippagePercentage) ==
    /\ call.op = "getBuyQuoteAsync"
    /\ \A task \in Awaited : task.pc = "resolved"
    /\ LET isMakerAssetZrxToken == call.makerAssetData = zrxTokenAssetData
           feeOrdersAndFillableAmounts ==
               IF isMakerAssetZrxToken
               THEN EMPTY_ORDERS_AND_FILLABLE_AMOUNTS
               ELSE Resolved("fee")
       IN  finished' = QuoteOutcome(call, Resolved("primary"),
                                    feeOrdersAndFillableAmounts,
                                    makerAssetBuyAmount, slippagePercentage,
                                    isMakerAssetZrxToken)
    /\ tasks' = Detached
    /\ call' = NoCall
    /\ called' = {}
    /\ settled' = {}
    /\ UNCHANGED <<now, ordersEntryMap, sim>>

\* ------------------------------ getLiquidityForMakerTakerAssetdataPairAsync
\* what orderProvider.getAvailableMakerAssetDatasAsync may resolve to
AvailableMakerAssetDatas == { << >>, <<"0xA">>, <<"0xZ", "0xA">> }

\* Array.prototype.includes
includes(array, element) == \E i \in 1..Len(array) : array[i] = element

\* IsListed with the test of line 210 left out
IsListed_Always(assetPairs, makerAssetData) == TRUE

\* the test of line 210
IsListed(assetPairs, makerAssetData) == includes(assetPairs, makerAssetData)

\* calculateLiquidity: the fillable maker amounts added up, and what the
\* takers pay for them at each order's rate
calculateLiquidity(ordersAndFillableAmounts) ==
    LET orders == ordersAndFillableAmounts.orders
        amounts == ordersAndFillableAmounts.remainingFillableMakerAssetAmounts
        taker == [i \in 1..Len(orders) |->
                    (amounts[i] * orders[i].takerAssetAmount)
                        \div orders[i].makerAssetAmount]
    IN  LiquidityForAssetData(SumTo(amounts, Len(orders)),
                              SumTo(taker, Len(orders)))

\* a public method that decodes its asset datas first (lines 203-207 and
\* 329-332) and then asks the provider for the available maker assets
\* (lines 209 and 333)
AskAvailable(op, makerAssetData, takerAssetData, shouldForceOrderRefresh) ==
    /\ call = NoCall
    /\ IF decodeAssetDataOrThrow(makerAssetData)
          /\ decodeAssetDataOrThrow(takerAssetData)
       THEN /\ call' = Call(op, "awaitAssetPairs", makerAssetData,
                            takerAssetData, shouldForceOrderRefresh, 0)
            /\ finished' = NoFinish
       ELSE /\ call' = NoCall
            /\ finished' = Finish(Call(op, "idle", makerAssetData,
                                       takerAssetData,
                                       shouldForceOrderRefresh, 0),
                                  "threw", "DecodeError")
    /\ called' = {}
    /\ settled' = {}
    /\ UNCHANGED <<now, ordersEntryMap, tasks, sim>>

\* getLiquidityForMakerTakerAssetdataPairAsync up to its first await
\* (lines 201-209)
GetLiquidity(makerAssetData, takerAssetData, shouldForceOrderRefresh) ==
    AskAvailable("getLiquidityForMakerTakerAssetdataPairAsync",
                 makerAssetData, takerAssetData, shouldForceOrderRefresh)

\* getAvailableMakerAssetDatasAsync rejects (lines 209, 333)
AssetPairsReject ==
    /\ call.pc = "awaitAssetPairs"
    /\ finished' = Finish(call, "threw", "OrderProviderError")
    /\ call' = NoCall
    /\ called' = {}
    /\ settled' = {}
    /\ UNCHANGED <<now, ordersEntryMap, tasks, sim>>

\* getAvailableMakerAssetDatasAsync resolves in
\* getLiquidityForMakerTakerAssetdataPairAsync (lines 209-221)
LiquidityAssetPairsResolve(assetPairs) ==
    /\ call.op = "getLiquidityForMakerTakerAssetdataPairAsync"
    /\ call.pc = "awaitAssetPairs"
    /\ IF ~IsListed(assetPairs, call.makerAssetData)
       THEN /\ finished' = [Finish(call, "returned", "") EXCEPT
                               !.assetPairs = assetPairs,
                               !.liquidity = LiquidityForAssetData(0, 0)]
            /\ call' = NoCall
            /\ called' = {}
            /\ settled' = {}
            /\ UNCHANGED tasks
       ELSE LET task == StartInvocation(call.makerAssetData,
                            call.takerAssetData,
                            call.shouldForceOrderRefresh, "orders")
            IN  /\ BagCardinality(tasks) < MaxTasks
                /\ tasks' = tasks (+) One(task)
                /\ called' = {CallEvent(task,
                                        call.shouldForceOrderRefresh)}
                /\ settled' = IF IsSettled(task) THEN {task} ELSE {}
                /\ call' = [call EXCEPT !.pc = "awaitOrders",
                                        !.requests = task.requests]
                /\ finished' = NoFinish
    /\ UNCHANGED <<now, ordersEntryMap, sim>>

\* the awaited getOrdersAndFillableAmountsAsync settles (lines 217-223)
LiquidityOrdersSettle(task) ==
    /\ call.op = "getLiquidityForMakerTakerAssetdataPairAsync"
    /\ call.pc = "awaitOrders"
    /\ task \in Awaited
    /\ IsSettled(task)
    /\ finished' = IF task.pc = "rejected"
                   THEN Finish(call, "threw", task.error)
                   ELSE [Finish(call, "returned", "") EXCEPT
                            !.assetPairs = <<call.makerAssetData>>,
                            !.liquidity = calculateLiquidity(task.result)]
    /\ tasks' = Detached
    /\ call' = NoCall
    /\ called' = {}
    /\ settled' = {}
    /\ UNCHANGED <<now, ordersEntryMap, sim>>

\* ----------------------------------- isTakerMakerAssetDataPairAvailableAsync
\* element[name] on a string element, as truthy or not: a non-empty string
\* has a length and a first character, and no property named after an
\* asset data
StringProperty(element, name) ==
    name \in {"length", "0"} /\ element # ""

\* _.findIndex(array, value) with a string as value: lodash reads the
\* string as the name of a property and looks for the first element on
\* which that property is truthy; -1 when there is none
findIndex(array, value) ==
    LET hits == {i \in 1..Len(array) : StringProperty(array[i], value)}
    IN  IF hits = {} THEN -1
        ELSE (CHOOSE i \in hits : \A j \in hits : i <= j) - 1

\* isTakerMakerAssetDataPairAvailableAsync up to its await (lines 329-333)
IsTakerMakerAssetDataPairAvailable(makerAssetData, takerAssetData) ==
    AskAvailable("isTakerMakerAssetDataPairAvailableAsync",
                 makerAssetData, takerAssetData, FALSE)

\* getAvailableMakerAssetDatasAsync resolves in
\* isTakerMakerAssetDataPairAvailableAsync (line 333)
AvailableAssetPairsResolve(assetPairs) ==
    /\ call.op = "isTakerMakerAssetDataPairAvailableAsync"
    /\ call.pc = "awaitAssetPairs"
    /\ finished' = [Finish(call, "returned", "") EXCEPT
                       !.assetPairs = assetPairs,
                       !.available =
                           findIndex(assetPairs, call.makerAssetData) # -1]
    /\ call' = NoCall
    /\ called' = {}
    /\ settled' = {}
    /\ UNCHANGED <<now, ordersEntryMap, tasks, sim>>

Next ==
    \/ \E m \in MakerAssetDatas, t \in TakerAssetDatas, f \in BOOLEAN :
            GetOrdersAndFillableAmounts(m, t, f)
    \/ Progress

Spec == Init /\ [][Next]_vars

NextQuote ==
    \/ \E m \in MakerAssetDatas, t \in TakerAssetDatas, f \in BOOLEAN :
            GetBuyQuote(m, t, f)
    \/ \E task \in Running : GetBuyQuoteRejects(task)
    \/ \E amount \in {1, 3}, slippage \in {0, 20} :
            GetBuyQuoteResolves(amount, slippage)
    \/ Progress

SpecQuote == Init /\ [][NextQuote]_vars

\* -------------------------------------------- quotes from cached order sets
\* an order with another takerFee
WithTakerFee(order, takerFee) == [order EXCEPT !.takerFee = takerFee]

\* the fillable orders of a pair a provider may have
OrderKinds(makerAssetData, takerAssetData) ==
    {WithTakerFee(Order(makerAssetData, takerAssetData, fillable), takerFee) :
        fillable \in {1, 2},
        takerFee \in IF makerAssetData = zrxTokenAssetData THEN {0}
                     ELSE {0, 1}}

\* the responses of up to MaxOrders fillable orders of a pair
OrderSets(makerAssetData, takerAssetData) ==
    UNION {[1..n -> OrderKinds(makerAssetData, takerAssetData)] :
              n \in 0..MaxOrders}

\* an AssetBuyer that has just fetched the orders of the pairs
\* (0xA, 0xW) and (ZRX, 0xW)
InitCalculate ==
    /\ now = 0
    /\ \E response \in OrderSets("0xA", "0xW"),
          feeResponse \in OrderSets(zrxTokenAssetData, "0xW") :
            ordersEntryMap =
                MapSet(MapSet(<< >>, _getOrdersEntryMapKey("0xA", "0xW"),
                              OrdersEntry(processAsync(response), 0)),
                       _getOrdersEntryMapKey(zrxTokenAssetData, "0xW"),
                       OrdersEntry(processAsync(feeResponse), 0))
    /\ tasks = EmptyBag
    /\ call = NoCall
    /\ called = {}
    /\ settled = {}
    /\ finished = NoFinish
    /\ sim = NewSimulation

\* quotes asked for, without force, while the two entries are fresh
NextCalculate ==
    \/ \E m \in {"0xA", zrxTokenAssetData} : GetBuyQuote(m, "0xW", FALSE)
    \/ \E amount \in BuyAmounts, slippage \in SlippagePercentages :
            GetBuyQuoteResolves(amount, slippage)

SpecCalculate == InitCalculate /\ [][NextCalculate]_vars

NextLiquidity ==
    \/ \E m \in MakerAssetDatas, t \in TakerAssetDatas, f \in BOOLEAN :
            GetLiquidity(m, t, f)
    \/ \E m \in MakerAssetDatas, t \in TakerAssetDatas :
            IsTakerMakerAssetDataPairAvailable(m, t)
    \/ AssetPairsReject
    \/ \E assetPairs \in AvailableMakerAssetDatas :
            LiquidityAssetPairsResolve(assetPairs)
    \/ \E task \in Running : LiquidityOrdersSettle(task)
    \/ \E assetPairs \in AvailableMakerAssetDatas :
            AvailableAssetPairsResolve(assetPairs)
    \/ Progress

SpecLiquidity == Init /\ [][NextLiquidity]_vars


\* ------------------------------------------------- pairs that share a key
\* the identifiers of the calls below
KeyAssetDatas == {"0xA", "0xW"} \cup SeparatorAssetDatas

\* the pairs asked for: a pair without the separator and two pairs whose
\* identifiers hold it
KeyPairs ==
    { <<"0xA", "0xW">>, <<"0xA_0xB", "0xW">>, <<"0xA", "0xB_0xW">> }

NextKeys ==
    \/ \E pair \in KeyPairs, f \in BOOLEAN :
            GetOrdersAndFillableAmounts(pair[1], pair[2], f)
    \/ Progress

SpecKeys == Init /\ [][NextKeys]_vars

\* ----------------------------------------------- PoolManagementSimulation
\* the array actions of lines 28-33
actions ==
    << "validStake", "validUnstake", "validCreateStakingPool",
       "validDecreaseStakingPoolOperatorShare" >>

\* what _.sample(actions) may return
sample(array) == {array[i] : i \in 1..Len(array)}

\* the record of the sampled actions, kept up to MaxSteps
Logged(log, action) ==
    IF Len(log) < MaxSteps THEN Append(log, action) ELSE log

\* Simulation.fuzzAsync awaits the generator and catches nothing: its
\* promise is pending while the generator runs and rejected once it threw
fuzzAsync(pc) == IF pc = "threw" THEN "rejected" ELSE "pending"

\* the test calls sim.fuzzAsync() (line 59): the generator runs to the
\* await of line 19
FuzzAsync ==
    /\ sim.pc = "created"
    /\ sim' = [sim EXCEPT !.pc = "awaitSetup",
                          !.fuzzAsync = fuzzAsync("awaitSetup")]
    /\ UNCHANGED buyerVars

\* lines 34-36: an action is sampled and started, and the generator awaits
\* it
SampleAndAwait(s, action) ==
    [s EXCEPT !.pc = "awaitAction",
              !.inProgress = {action},
              !.log = Logged(s.log, action),
              !.parity = 1 - s.parity,
              !.outcome = "resolved",
              !.fuzzAsync = fuzzAsync("awaitAction")]

\* the generator throws out of an await: no try encloses lines 17-37
Throws(s, error) ==
    [s EXCEPT !.pc = "threw", !.inProgress = {}, !.outcome = "rejected",
              !.fuzzAsync = fuzzAsync("threw"), !.error = error]

\* configureERC20TokenAsync resolves: lines 20-36 run, up to the await of
\* the first action
SetupResolves(action) ==
    /\ sim.pc = "awaitSetup"
    /\ action \in sample(actions)
    /\ sim' = SampleAndAwait(sim, action)
    /\ UNCHANGED buyerVars

\* configureERC20TokenAsync rejects (line 19)
SetupRejects ==
    /\ sim.pc = "awaitSetup"
    /\ sim' = Throws(sim, "SetupError")
    /\ UNCHANGED buyerVars

\* ActionResolves not waiting for the action in progress: the next one is
\* started beside it
ActionResolves_Overlaps(next) ==
    /\ sim.pc = "awaitAction"
    /\ next \in sample(actions)
    /\ sim' = [SampleAndAwait(sim, next) EXCEPT
                  !.inProgress = sim.inProgress \cup {next}]
    /\ UNCHANGED buyerVars

\* the awaited action resolves (line 36): the loop goes round, the next
\* action is sampled, started and awaited
ActionResolves(next) ==
    /\ sim.pc = "awaitAction"
    /\ next \in sample(actions)
    /\ sim' = SampleAndAwait(sim, next)
    /\ UNCHANGED buyerVars

\* ActionRejects with the failure caught and the loop going on
ActionRejects_Swallows ==
    /\ sim.pc = "awaitAction"
    /\ \E next \in sample(actions) :
          sim' = [SampleAndAwait(sim, next) EXCEPT !.outcome = "rejected",
                                                  !.error = "ActionError"]
    /\ UNCHANGED buyerVars

\* the awaited action rejects (line 36)
ActionRejects ==
    /\ sim.pc = "awaitAction"
    /\ sim' = Throws(sim, "ActionError")
    /\ UNCHANGED buyerVars

InitFuzz == Init

NextFuzz ==
    \/ FuzzAsync
    \/ \E action \in sample(actions) : SetupResolves(action)
    \/ SetupRejects
    \/ \E next \in sample(actions) : ActionResolves(next)
    \/ ActionRejects

SpecFuzz == InitFuzz /\ [][NextFuzz]_vars

\* the test calls fuzzAsync, and an await whose promise resolves goes on
SpecFuzzFair ==
    /\ InitFuzz
    /\ [][NextFuzz]_vars
    /\ WF_vars(FuzzAsync)
    /\ WF_vars(\E action \in sample(actions) : SetupResolves(action))
    /\ WF_vars(\E next \in sample(actions) : ActionResolves(next))

\* ------------------------------------------------------------------ claims
Key(task) == _getOrdersEntryMapKey(task.makerAssetData, task.takerAssetData)

Decodes(task) ==
    /\ decodeAssetDataOrThrow(task.makerAssetData)
    /\ decodeAssetDataOrThrow(task.takerAssetData)

\* the time since the entry of the invocation's key was stored
Age(task) == now - ordersEntryMap[Key(task)].lastRefreshTime

\* C1: a call with shouldForceOrderRefresh = false, made while the entry of
\* its key is less than orderRefreshIntervalMs old, issues no getOrdersAsync
\* request and resolves at once to the ordersAndFillableAmounts stored in
\* that entry.
C1_FreshEntryServedWithoutRequest ==
    \A e \in called :
        (/\ Decodes(e.task)
         /\ ~e.shouldForceOrderRefresh
         /\ Key(e.task) \in DOMAIN ordersEntryMap
         /\ Age(e.task) < orderRefreshIntervalMs)
        => /\ e.task.pc = "resolved"
           /\ e.task.requests = 0
           /\ e.task.result =
                ordersEntryMap[Key(e.task)].ordersAndFillableAmounts
           /\ ~BagIn(e.task, tasks)

C1_Witness ==
    \E e \in called :
        /\ ~e.shouldForceOrderRefresh
        /\ Key(e.task) \in DOMAIN ordersEntryMap
        /\ Age(e.task) < orderRefreshIntervalMs
        /\ e.task.pc = "resolved"
        /\ Len(e.task.result.orders) > 0

\* C2: a call made when its key has no entry, or with
\* shouldForceOrderRefresh = true, or when the entry is more than
\* orderRefreshIntervalMs old, issues one getOrdersAsync request; no
\* invocation ever has more than one request to its name; and an invocation
\* that resolves after its request leaves, under its key, the entry made of
\* its result and the current time.
C2_StaleForcedOrMissingFetchesOnce ==
    /\ \A e \in called :
         (/\ Decodes(e.task)
          /\ \/ Key(e.task) \notin DOMAIN ordersEntryMap
             \/ e.shouldForceOrderRefresh
             \/ Age(e.task) > orderRefreshIntervalMs)
         => /\ e.task.pc = "awaitResponse"
            /\ e.task.requests = 1
            /\ BagIn(e.task, tasks)
    /\ \A task \in Running \cup settled :
         /\ task.requests <= 1
         /\ IsRunning(task) => task.requests = 1
    /\ \A task \in settled :
         (task.pc = "resolved" /\ task.requests = 1)
         => /\ Key(task) \in DOMAIN ordersEntryMap
            /\ ordersEntryMap[Key(task)] = OrdersEntry(task.result, now)

\* a forced refresh has replaced an entry that was still fresh
C2_Witness ==
    \E task \in settled :
        /\ task.pc = "resolved"
        /\ task.requests = 1
        /\ Len(task.result.orders) > 0
        /\ now > 0
        /\ ordersEntryMap[Key(task)] = OrdersEntry(task.result, now)

\* C3 as claimed: an entry is served from the cache exactly while
\* now - lastRefreshTime < orderRefreshIntervalMs, so a call without force
\* at now - lastRefreshTime = orderRefreshIntervalMs refetches.
C3_FreshOnlyBelowInterval ==
    \A e \in called :
        (/\ Decodes(e.task)
         /\ ~e.shouldForceOrderRefresh
         /\ Key(e.task) \in DOMAIN ordersEntryMap)
        => (e.task.pc = "resolved"
                <=> Age(e.task) < orderRefreshIntervalMs)

\* C3 amended: an entry is served from the cache exactly while
\* now - lastRefreshTime <= orderRefreshIntervalMs; a call without force
\* refetches only once now - lastRefreshTime > orderRefreshIntervalMs.
C3_FreshUpToInterval ==
    \A e \in called :
        (/\ Decodes(e.task)
         /\ ~e.shouldForceOrderRefresh
         /\ Key(e.task) \in DOMAIN ordersEntryMap)
        => /\ e.task.pc = "resolved"
                <=> Age(e.task) <= orderRefreshIntervalMs
           /\ e.task.pc = "awaitResponse"
                <=> Age(e.task) > orderRefreshIntervalMs

\* a call at exactly now - lastRefreshTime = orderRefreshIntervalMs was
\* served from the cache
C3_Witness ==
    \E e \in called :
        /\ ~e.shouldForceOrderRefresh
        /\ Key(e.task) \in DOMAIN ordersEntryMap
        /\ Age(e.task) = orderRefreshIntervalMs
        /\ e.task.pc = "resolved"
        /\ e.task.requests = 0

\* every order a cache entry holds is an order of the entry's own pair
EntriesHoldOwnPairOnly ==
    \A key \in DOMAIN ordersEntryMap :
        \A i \in 1..Len(ordersEntryMap[key].ordersAndFillableAmounts.orders) :
            Key(ordersEntryMap[key].ordersAndFillableAmounts.orders[i]) = key

\* C4: when getOrdersAsync resolves to a response holding an order of
\* another pair than the requested one, the invocation is rejected with
\* InvalidOrderProviderResponse in that very step (the response is not
\* handed to processAsync, with or without the order), the cache is left
\* as it was, and no cache entry ever holds an order of another pair.
C4_InvalidResponseRejected ==
    /\ []EntriesHoldOwnPairOnly
    /\ [][\A task \in Running :
            \A r \in ProviderResponses(task.makerAssetData,
                                       task.takerAssetData) :
              (/\ throwIfInvalidResponse(r, task.makerAssetData,
                                         task.takerAssetData)
               /\ GetOrdersResolves(task, r))
              => /\ ordersEntryMap' = ordersEntryMap
                 /\ settled' = {[task EXCEPT !.pc = "rejected",
                                   !.error = "InvalidOrderProviderResponse"]}
                 /\ tasks' = tasks (-) One(task)]_vars

\* an invalid response was rejected while the key had an entry
C4_Witness ==
    \E task \in settled :
        /\ task.error = "InvalidOrderProviderResponse"
        /\ task.pc = "rejected"
        /\ Key(task) \in DOMAIN ordersEntryMap

\* C5: when the getOrdersAsync request of an invocation rejects, its
\* response is invalid or processAsync rejects, the cache (the entry of the
\* key included, orders and lastRefreshTime) stays as it was, the
\* invocation is rejected with that error, and it is over with the one
\* request it had issued.
C5_FailureLeavesEntryAndPropagates ==
    [][\A task \in Running :
         LET failed(error) ==
               /\ ordersEntryMap' = ordersEntryMap
               /\ settled' = {[task EXCEPT !.pc = "rejected",
                                           !.response = << >>,
                                           !.error = error]}
               /\ task.requests = 1
               /\ tasks' = tasks (-) One(task)
         IN  /\ GetOrdersRejects(task) => failed("OrderProviderError")
             /\ ProcessRejects(task) => failed("OrderValidatorError")
             /\ \A r \in ProviderResponses(task.makerAssetData,
                                           task.takerAssetData) :
                  (/\ throwIfInvalidResponse(r, task.makerAssetData,
                                             task.takerAssetData)
                   /\ GetOrdersResolves(task, r))
                  => failed("InvalidOrderProviderResponse")]_vars

\* a fetch failed while the key had an entry, which is still there
C5_Witness ==
    \E task \in settled :
        /\ task.pc = "rejected"
        /\ task.error \in {"OrderProviderError", "OrderValidatorError"}
        /\ task.requests = 1
        /\ Key(task) \in DOMAIN ordersEntryMap
        /\ Len(ordersEntryMap[Key(task)].ordersAndFillableAmounts.orders) > 0

\* C6: a call of getOrdersAndFillableAmountsAsync with a makerAssetData or
\* a takerAssetData that does not decode is rejected with the decoding
\* error in its synchronous part, whatever shouldForceOrderRefresh and the
\* cache are: it has issued no request and nothing of it is left running.
C6_UndecodableFailsFirst ==
    \A e \in called :
        ~Decodes(e.task)
        => /\ e.task.pc = "rejected"
           /\ e.task.error = "DecodeError"
           /\ e.task.requests = 0
           /\ e.task \in settled
           /\ ~BagIn(e.task, tasks)
           /\ Key(e.task) \notin DOMAIN ordersEntryMap

\* a forced call with an undecodable asset failed while the cache had
\* entries
C6_Witness ==
    \E e \in called :
        /\ ~Decodes(e.task)
        /\ e.shouldForceOrderRefresh
        /\ e.task.error = "DecodeError"
        /\ ordersEntryMap # << >>

\* C7: while a getBuyQuoteAsync call with an undecodable makerAssetData or
\* takerAssetData is in progress, no getOrdersAsync request has been issued
\* on its behalf, neither for the primary pair nor for the fee pair, and
\* none of its invocations is running (so none can store an entry later).
C7_MalformedQuoteIssuesNothing ==
    (/\ call.op = "getBuyQuoteAsync"
     /\ ~Decodes(call))
    => /\ call.requests = 0
       /\ \A task \in Awaited : ~IsRunning(task)

\* C10: when the Promise.all of getBuyQuoteAsync resolves, an empty primary
\* order set makes the call throw AssetUnavailable without any invocation
\* of buyQuoteCalculator.calculate, and a non-empty one makes it invoke
\* calculate exactly once, with that order set; a call that ends in any
\* other way has not invoked calculate.
C10_EmptyPrimaryIsUnavailable ==
    [][(call.op = "getBuyQuoteAsync" /\ call' = NoCall)
       => IF \A task \in Awaited : task.pc = "resolved"
          THEN IF Len(Resolved("primary").orders) = 0
               THEN /\ finished'.outcome = "threw"
                    /\ finished'.error = "AssetUnavailable"
                    /\ finished'.calculateCalls = << >>
               ELSE /\ Len(finished'.calculateCalls) = 1
                    /\ finished'.calculateCalls[1].ordersAndFillableAmounts
                         = Resolved("primary")
          ELSE /\ finished'.outcome = "threw"
               /\ finished'.calculateCalls = << >>]_vars

\* a quote for a pair with cached fee orders but no primary orders was
\* refused
C10_Witness ==
    /\ finished.op = "getBuyQuoteAsync"
    /\ finished.error = "AssetUnavailable"
    /\ finished.calculateCalls = << >>
    /\ finished.makerAssetData # zrxTokenAssetData
    /\ _getOrdersEntryMapKey(zrxTokenAssetData, finished.takerAssetData)
          \in DOMAIN ordersEntryMap

\* C8: when the list the provider returns to
\* getLiquidityForMakerTakerAssetdataPairAsync does not hold makerAssetData,
\* the call returns zero for both amounts in that step, whatever
\* shouldForceOrderRefresh is: it has issued no getOrdersAsync request,
\* starts no invocation and leaves the cache as it was.
C8_UnlistedPairHasZeroLiquidity ==
    [][\A assetPairs \in AvailableMakerAssetDatas :
         (/\ call.op = "getLiquidityForMakerTakerAssetdataPairAsync"
          /\ call.pc = "awaitAssetPairs"
          /\ ~includes(assetPairs, call.makerAssetData)
          /\ LiquidityAssetPairsResolve(assetPairs))
         => /\ finished'.outcome = "returned"
            /\ finished'.liquidity = LiquidityForAssetData(0, 0)
            /\ finished'.requests = 0
            /\ called' = {}
            /\ tasks' = tasks
            /\ ordersEntryMap' = ordersEntryMap]_vars

\* a forced liquidity call for an unlisted pair returned zero while the
\* cache held orders
C8_Witness ==
    /\ finished.op = "getLiquidityForMakerTakerAssetdataPairAsync"
    /\ finished.outcome = "returned"
    /\ ~includes(finished.assetPairs, finished.makerAssetData)
    /\ finished.shouldForceOrderRefresh
    /\ finished.liquidity = LiquidityForAssetData(0, 0)
    /\ \E key \in DOMAIN ordersEntryMap :
          Len(ordersEntryMap[key].ordersAndFillableAmounts.orders) > 0

\* C9: isTakerMakerAssetDataPairAvailableAsync returns true exactly when
\* makerAssetData is an element of the list the provider returned for
\* takerAssetData.
C9_AvailableIffListed ==
    (/\ finished.op = "isTakerMakerAssetDataPairAvailableAsync"
     /\ finished.outcome = "returned")
    => (finished.available
            <=> includes(finished.assetPairs, finished.makerAssetData))

\* C11: a getBuyQuoteAsync call for the ZRX asset itself makes one call of
\* getOrdersAndFillableAmountsAsync, for its primary pair: no invocation is
\* started or awaited for a fee pair, at most one getOrdersAsync request is
\* issued on its behalf, and buyQuoteCalculator.calculate gets the empty
\* fee order set.  A call for any other asset makes two calls, for
\* (makerAssetData, takerAssetData) and for (ZRX, takerAssetData), both with
\* the shouldForceOrderRefresh of the quote: a forced one issues a request
\* for each pair that decodes.
C11_ZrxMakerSkipsFeeStep ==
    /\ (call.op = "getBuyQuoteAsync" /\ called # {})
       => /\ \A e \in called :
                /\ e.shouldForceOrderRefresh = call.shouldForceOrderRefresh
                /\ e.task.takerAssetData = call.takerAssetData
                /\ (e.shouldForceOrderRefresh /\ Decodes(e.task))
                      => (e.task.pc = "awaitResponse" /\ e.task.requests = 1)
          /\ \E p \in called :
                /\ p.task.slot = "primary"
                /\ p.task.makerAssetData = call.makerAssetData
                /\ IF call.makerAssetData = zrxTokenAssetData
                   THEN called = {p}
                   ELSE \E fe \in called :
                          /\ called = {p, fe}
                          /\ fe.task.slot = "fee"
                          /\ fe.task.makerAssetData = zrxTokenAssetData
    /\ (call.op = "getBuyQuoteAsync"
          /\ call.makerAssetData = zrxTokenAssetData)
       => /\ call.requests <= 1
          /\ \A task \in Awaited : task.slot = "primary"
          /\ Cardinality(Awaited) = 1
    /\ (finished.op = "getBuyQuoteAsync"
          /\ finished.makerAssetData = zrxTokenAssetData)
       => /\ finished.requests <= 1
          /\ \A i \in 1..Len(finished.calculateCalls) :
                finished.calculateCalls[i].feeOrdersAndFillableAmounts
                    = EMPTY_ORDERS_AND_FILLABLE_AMOUNTS

\* a quote for ZRX was computed after one request, with no fee orders,
\* while the cache held nothing but the entry of its primary pair
C11_Witness ==
    /\ finished.op = "getBuyQuoteAsync"
    /\ finished.makerAssetData = zrxTokenAssetData
    /\ finished.outcome = "returned"
    /\ finished.requests = 1
    /\ Len(finished.calculateCalls) = 1
    /\ finished.calculateCalls[1].feeOrdersAndFillableAmounts
          = EMPTY_ORDERS_AND_FILLABLE_AMOUNTS
    /\ DOMAIN ordersEntryMap =
          {_getOrdersEntryMapKey(zrxTokenAssetData, finished.takerAssetData)}

\* the order sets of the call that ended in the last step, as the cache
\* holds them
PrimarySet ==
    ordersEntryMap[_getOrdersEntryMapKey(finished.makerAssetData,
        finished.takerAssetData)].ordersAndFillableAmounts

FeeSet ==
    IF finished.makerAssetData = zrxTokenAssetData
    THEN EMPTY_ORDERS_AND_FILLABLE_AMOUNTS
    ELSE ordersEntryMap[_getOrdersEntryMapKey(zrxTokenAssetData,
             finished.takerAssetData)].ordersAndFillableAmounts

TotalFillable(ordersAndFillableAmounts) ==
    SumTo(ordersAndFillableAmounts.remainingFillableMakerAssetAmounts,
          Len(ordersAndFillableAmounts.orders))

\* the length of the shortest prefix whose fillable amounts add up to the
\* amount at least
ShortestPrefix(amounts, amount) ==
    CHOOSE n \in 0..Len(amounts) :
        /\ SumTo(amounts, n) >= amount
        /\ \A k \in 0..(n - 1) : SumTo(amounts, k) < amount

\* a quote was calculated from the cached, non-empty primary order set
Calculated ==
    /\ finished.op = "getBuyQuoteAsync"
    /\ Len(finished.calculateCalls) = 1
    /\ Len(PrimarySet.orders) > 0

C13_WorstCaseMonotonicInSlippage ==
    (Calculated /\ finished.outcome = "returned")
    => LET quote == finished.buyQuote
           at(slippage) ==
               calculate(PrimarySet, FeeSet, finished.makerAssetBuyAmount,
                         slippage,
                         finished.makerAssetData = zrxTokenAssetData)
       IN  /\ quote.bestCaseQuoteInfo <= quote.worstCaseQuoteInfo
           /\ at(0).worstCaseQuoteInfo = quote.bestCaseQuoteInfo
           /\ \A s2 \in 0..100 :
                /\ at(s2).error = ""
                /\ at(s2).bestCaseQuoteInfo = quote.bestCaseQuoteInfo
                /\ s2 >= finished.slippagePercentage
                     => at(s2).worstCaseQuoteInfo >= quote.worstCaseQuoteInfo
                /\ s2 <= finished.slippagePercentage
                     => at(s2).worstCaseQuoteInfo <= quote.worstCaseQuoteInfo

\* a quote with fee orders was given at a slippage that raised its worst
\* case above its best case
C13_Witness ==
    /\ Calculated
    /\ finished.outcome = "returned"
    /\ finished.slippagePercentage > 0
    /\ Len(finished.buyQuote.feeOrders) >= 1
    /\ finished.buyQuote.worstCaseQuoteInfo
          > finished.buyQuote.bestCaseQuoteInfo

\* every cache entry is what processAsync makes of one valid response for
\* the pair of its key
EntriesAreWholeResponses ==
    \A m \in MakerAssetDatas, t \in TakerAssetDatas :
        _getOrdersEntryMapKey(m, t) \in DOMAIN ordersEntryMap
        => \E r \in ProviderResponses(m, t) :
              /\ ~throwIfInvalidResponse(r, m, t)
              /\ ordersEntryMap[_getOrdersEntryMapKey(m, t)]
                    .ordersAndFillableAmounts = processAsync(r)

\* C14: invocations for the same key may be in flight together, each with
\* its own request.  Whenever one of them resolves it resolves to what
\* processAsync made of its own response, and the entry of the key is then
\* that result with the current time; the cache changes in no other step,
\* so once all have completed the entry is the one stored last; and an
\* entry is always the whole of one response, never a mixture of two.
C14_ConcurrentFetchesLastStoreWins ==
    /\ []EntriesAreWholeResponses
    /\ [](\A task \in settled :
            (task.pc = "resolved" /\ task.requests = 1)
            => ordersEntryMap[Key(task)] = OrdersEntry(task.result, now))
    /\ [][/\ \A task \in Running :
              ProcessResolves(task)
              => /\ settled' = {[task EXCEPT
                                   !.pc = "resolved", !.response = << >>,
                                   !.result = processAsync(task.response)]}
                 /\ \A key \in DOMAIN ordersEntryMap \ {Key(task)} :
                       ordersEntryMap'[key] = ordersEntryMap[key]
          /\ ordersEntryMap' # ordersEntryMap
              => \E task \in settled' :
                    task.pc = "resolved" /\ task.requests = 1]_vars

\* of two invocations for the same key that both missed, one has stored
\* its result while the other holds a response that will give another
C14_Witness ==
    \E done \in settled, other \in Running :
        /\ Key(other) = Key(done)
        /\ done.pc = "resolved"
        /\ done.requests = 1
        /\ other.pc = "awaitProcess"
        /\ other.requests = 1
        /\ processAsync(other.response) # done.result
        /\ ordersEntryMap[Key(done)] = OrdersEntry(done.result, now)

\* the pair of the invocation needs a fetch: it decodes, and it is forced
\* or its key has no entry or an entry older than the interval
NeedsFetch(e) ==
    /\ Decodes(e.task)
    /\ \/ e.shouldForceOrderRefresh
       \/ Key(e.task) \notin DOMAIN ordersEntryMap
       \/ Age(e.task) > orderRefreshIntervalMs

\* the invocations of the call in progress are its primary and its fee one
BothInvocationsStarted ==
    (call.op = "getBuyQuoteAsync"
       /\ call.makerAssetData # zrxTokenAssetData)
    => /\ {task.slot : task \in Awaited} = {"primary", "fee"}
       /\ Cardinality(Awaited) = 2

\* C15: a getBuyQuoteAsync call for an asset other than ZRX has started
\* its primary and its fee invocation by the time it first awaits; when
\* both pairs need a fetch, both requests are out, and neither response is
\* in, at that point.  After that the two invocations advance
\* independently, and buyQuoteCalculator.calculate is invoked only in a
\* step before which both have resolved, with the results of the two.
C15_BothRequestsBeforeEitherResponse ==
    /\ []BothInvocationsStarted
    /\ []((call.op = "getBuyQuoteAsync" /\ called # {}
             /\ \A e \in called : NeedsFetch(e)
             /\ call.makerAssetData # zrxTokenAssetData)
          => /\ call.requests = 2
             /\ \A task \in Awaited :
                   /\ task.pc = "awaitResponse"
                   /\ task.requests = 1
                   /\ task.response = << >>)
    /\ [][(call.op = "getBuyQuoteAsync"
            /\ call.makerAssetData # zrxTokenAssetData
            /\ finished'.calculateCalls # << >>)
          => /\ \A task \in Awaited : task.pc = "resolved"
             /\ finished'.calculateCalls[1].ordersAndFillableAmounts
                   = Resolved("primary")
             /\ finished'.calculateCalls[1].feeOrdersAndFillableAmounts
                   = Resolved("fee")]_vars

\* both requests of a quote went out, and the fee invocation has resolved
\* with its orders while the primary request is still unanswered
C15_Witness ==
    /\ call.op = "getBuyQuoteAsync"
    /\ call.requests = 2
    /\ \E primary \in Awaited, fee \in Awaited :
          /\ primary.slot = "primary"
          /\ primary.pc = "awaitResponse"
          /\ fee.slot = "fee"
          /\ fee.pc = "resolved"
          /\ fee.requests = 1
          /\ Len(fee.result.orders) > 0

\* C16: no step takes a key out of the order cache: a key that has an
\* entry has one after every step, whether the step starts a call (forced
\* or not), receives or fails a request, validates, processes, stores or
\* lets time pass.
C16_EntriesNeverEvicted ==
    [][DOMAIN ordersEntryMap \subseteq DOMAIN ordersEntryMap']_vars

\* the refresh of a stale entry has just failed in processAsync while the
\* cache holds the entries of two keys, that of the failed refresh included
C16_Witness ==
    \E task \in settled :
        /\ task.pc = "rejected"
        /\ task.error = "OrderValidatorError"
        /\ Key(task) \in DOMAIN ordersEntryMap
        /\ Age(task) > orderRefreshIntervalMs
        /\ Cardinality(DOMAIN ordersEntryMap) = 2

\* C17: the generator ends in no other way than by a failed await; at most
\* one action is in progress at any time, it is one of validStake,
\* validUnstake, validCreateStakingPool and
\* validDecreaseStakingPoolOperatorShare, and an action is sampled only in
\* the step in which the await before it has resolved; and unless an await
\* fails, the loop samples and awaits an action again and again, for ever.
C17_LoopSamplesForever ==
    /\ [](/\ sim.pc \in {"created", "awaitSetup", "awaitAction", "threw"}
          /\ sim.pc = "threw" => sim.outcome = "rejected"
          /\ Cardinality(sim.inProgress) <= 1
          /\ sim.pc = "awaitAction" => Cardinality(sim.inProgress) = 1
          /\ sim.inProgress \subseteq
                {"validStake", "validUnstake", "validCreateStakingPool",
                 "validDecreaseStakingPoolOperatorShare"})
    /\ [][sim'.parity # sim.parity
            => /\ sim.pc \in {"awaitSetup", "awaitAction"}
               /\ sim'.outcome = "resolved"
               /\ sim'.pc = "awaitAction"
               /\ Cardinality(sim'.inProgress) = 1]_vars
    /\ \/ <>(sim.outcome = "rejected")
       \/ /\ []<>(sim.pc = "awaitAction" /\ sim.parity = 0)
          /\ []<>(sim.pc = "awaitAction" /\ sim.parity = 1)

\* the loop has gone round more than MaxSteps times without a failure and
\* awaits an action
C17_Witness ==
    /\ sim.pc = "awaitAction"
    /\ Len(sim.log) = MaxSteps
    /\ sim.parity # MaxSteps % 2
    /\ sim.log[1] # sim.log[2]
    /\ sim.outcome = "resolved"
    /\ sim.fuzzAsync = "pending"

\* C18: when an awaited action fails, the generator has thrown that
\* failure in the same step, with no action in progress, and the promise
\* of fuzzAsync is rejected; from then on nothing changes: no action is
\* sampled or started any more.
C18_FailureHaltsAndPropagates ==
    /\ [](sim.outcome = "rejected"
           => /\ sim.pc = "threw"
              /\ sim.inProgress = {}
              /\ sim.fuzzAsync = "rejected"
              /\ sim.error \in {"ActionError", "SetupError"})
    /\ [](sim.fuzzAsync = "rejected" => sim.outcome = "rejected")
    /\ [][sim.pc = "threw" => sim' = sim]_vars
    /\ [][(sim.pc = "awaitAction" /\ sim'.error = "ActionError")
            => /\ sim'.pc = "threw"
               /\ sim'.log = sim.log
               /\ sim'.parity = sim.parity]_vars

\* an action failed after others had succeeded
C18_Witness ==
    /\ sim.pc = "threw"
    /\ sim.error = "ActionError"
    /\ sim.fuzzAsync = "rejected"
    /\ Len(sim.log) >= 2

\* C19: the step in which processAsync resolves for an invocation puts
\* under its key the entry made of what processAsync gave for the response
\* of that invocation, whatever the entry before it was, and of the clock
\* as it stands in that step; an entry changes in no other way, so its
\* orders and its lastRefreshTime always come from the same store, and no
\* lastRefreshTime is ahead of the clock.
C19_RefreshReplacesWholesale ==
    /\ [](\A key \in DOMAIN ordersEntryMap :
            ordersEntryMap[key].lastRefreshTime <= now)
    /\ [][/\ \A task \in Running :
              ProcessResolves(task)
              => /\ now' = now
                 /\ Key(task) \in DOMAIN ordersEntryMap'
                 /\ ordersEntryMap'[Key(task)] =
                       OrdersEntry(processAsync(task.response), now)
          /\ \A key \in DOMAIN ordersEntryMap :
              ordersEntryMap'[key] # ordersEntryMap[key]
              => \E task \in settled' :
                    /\ Key(task) = key
                    /\ task.pc = "resolved"
                    /\ task.requests = 1
                    /\ ordersEntryMap'[key] = OrdersEntry(task.result, now')
                    /\ \E before \in Running :
                          /\ before.pc = "awaitProcess"
                          /\ task.result = processAsync(before.response)
                          /\ Key(before) = key]_vars

\* a refresh that found no fillable order has just put the empty order
\* set with the current time under its key, while the entry of another key
\* keeps its orders and its earlier time
C19_Witness ==
    \E task \in settled :
        /\ task.pc = "resolved"
        /\ task.requests = 1
        /\ now = MaxTime
        /\ ordersEntryMap[Key(task)] =
              OrdersEntry(EMPTY_ORDERS_AND_FILLABLE_AMOUNTS, now)
        /\ \E key \in DOMAIN ordersEntryMap :
              /\ ordersEntryMap[key].lastRefreshTime < now
              /\ Len(ordersEntryMap[key].ordersAndFillableAmounts.orders) > 0

\* the identifier holds the separator of the cache key
HoldsSeparator(assetData) ==
    \E i \in 1..Len(assetData) : SubSeq(assetData, i, i) = "_"

\* two pairs of identifiers without the separator that have the same key
\* are the same pair
KeyInjectiveWithoutSeparator ==
    \A m1 \in KeyAssetDatas, t1 \in KeyAssetDatas,
       m2 \in KeyAssetDatas, t2 \in KeyAssetDatas :
         (/\ ~HoldsSeparator(m1) /\ ~HoldsSeparator(t1)
          /\ ~HoldsSeparator(m2) /\ ~HoldsSeparator(t2)
          /\ _getOrdersEntryMapKey(m1, t1) = _getOrdersEntryMapKey(m2, t2))
         => (m1 = m2 /\ t1 = t2)

\* two different pairs asked for have the same key
KeyPairsCollide ==
    \E p \in KeyPairs, q \in KeyPairs :
        /\ p # q
        /\ _getOrdersEntryMapKey(p[1], p[2])
              = _getOrdersEntryMapKey(q[1], q[2])

\* C20: two pairs of identifiers without the separator that have the same
\* key are the same pair, in the same order; among identifiers that may
\* hold the separator two different pairs have the same key.  A call
\* served from the cache is served the entry under the key of its pair:
\* for a pair without the separator these are orders of that very pair,
\* while a pair with the separator may be served whatever another pair
\* with the same key has stored.
C20_KeyInjectiveWithoutSeparator ==
    /\ KeyInjectiveWithoutSeparator
    /\ KeyPairsCollide
    /\ \A e \in called :
          (e.task.pc = "resolved" /\ e.task.requests = 0)
          => /\ e.task.result =
                  ordersEntryMap[Key(e.task)].ordersAndFillableAmounts
             /\ (/\ ~HoldsSeparator(e.task.makerAssetData)
                 /\ ~HoldsSeparator(e.task.takerAssetData))
                => \A i \in 1..Len(e.task.result.orders) :
                      /\ e.task.result.orders[i].makerAssetData
                            = e.task.makerAssetData
                      /\ e.task.result.orders[i].takerAssetData
                            = e.task.takerAssetData

\* a call for one pair was served, from the cache, the orders of another
\* pair that has the same key
C20_Witness ==
    \E e \in called :
        /\ e.task.pc = "resolved"
        /\ e.task.requests = 0
        /\ Len(e.task.result.orders) > 0
        /\ e.task.result.orders[1].makerAssetData # e.task.makerAssetData
        /\ Key(e.task.result.orders[1]) = Key(e.task)

\* the keys of the two pairs of the getBuyQuoteAsync call in progress: the
\* pair asked for and, unless the asset bought is ZRX, the fee pair
CallKeys ==
    {_getOrdersEntryMapKey(call.makerAssetData, call.takerAssetData)}
      \cup (IF call.makerAssetData = zrxTokenAssetData THEN {}
            ELSE {_getOrdersEntryMapKey(zrxTokenAssetData,
                                        call.takerAssetData)})

\* the keys whose entry the step creates, changes or removes
Touched ==
    {key \in DOMAIN ordersEntryMap \cup DOMAIN ordersEntryMap' :
        \/ key \notin DOMAIN ordersEntryMap
        \/ key \notin DOMAIN ordersEntryMap'
        \/ ordersEntryMap'[key] # ordersEntryMap[key]}

\* C21: a step creates, changes or removes the entry of a key only when
\* an invocation for that very key resolves after its fetch; the step
\* that starts invocations (hit, miss or undecodable), the step in which a
\* request or the processing fails and the step that ends a quote touch no
\* entry at all.  The invocations a getBuyQuoteAsync call awaits are for
\* its primary pair and its fee pair only, so all that the call can touch
\* are the entries of those two keys.
C21_OtherKeysUntouched ==
    /\ [](\A task \in Awaited :
            call.op = "getBuyQuoteAsync" => Key(task) \in CallKeys)
    /\ [][/\ \A key \in Touched :
              /\ Cardinality(Touched) = 1
              /\ \E before \in Running :
                    /\ before.pc = "awaitProcess"
                    /\ Key(before) = key
                    /\ settled' = {[before EXCEPT
                                      !.pc = "resolved", !.response = << >>,
                                      !.result =
                                          processAsync(before.response)]}
          /\ (called' # {} \/ finished' # NoFinish) => Touched = {}
          /\ (\E task \in settled' : task.pc = "rejected")
                => Touched = {}
          /\ \A task \in Awaited :
                (ProcessResolves(task) /\ call.op = "getBuyQuoteAsync")
                => Touched \subseteq CallKeys]_vars

\* the fee invocation of a forced quote has just stored its orders while
\* the primary request is unanswered, and the entry of the primary pair is
\* still the older one with its orders
C21_Witness ==
    /\ call.op = "getBuyQuoteAsync"
    /\ call.shouldForceOrderRefresh
    /\ \E fee \in settled, primary \in Awaited :
          /\ fee.slot = "fee"
          /\ fee.pc = "resolved"
          /\ fee.requests = 1
          /\ primary.slot = "primary"
          /\ primary.pc = "awaitResponse"
          /\ Key(primary) # Key(fee)
          /\ Key(primary) \in DOMAIN ordersEntryMap
          /\ ordersEntryMap[Key(primary)].lastRefreshTime < now
          /\ Len(ordersEntryMap[Key(primary)]
                    .ordersAndFillableAmounts.orders) > 0
          /\ ordersEntryMap[Key(fee)] = OrdersEntry(fee.result, now)

\* C22: under the clock of Tick, which never goes back, in every step
\* every key that has an entry keeps one whose lastRefreshTime is at least what it was,
\* whichever of the invocations in flight takes the step: of several
\* fetches for one key any may complete first, and each stamps the clock
\* of its own store.
C22_LastRefreshTimeNeverDecreases ==
    [][\A key \in DOMAIN ordersEntryMap :
          /\ key \in DOMAIN ordersEntryMap'
          /\ ordersEntryMap'[key].lastRefreshTime
                >= ordersEntryMap[key].lastRefreshTime]_vars

\* of two fetches for one key that are in flight together one has just
\* stored its result while the other holds its response and will store
\* after it, and the entry of another key was stored earlier
C22_Witness ==
    \E done \in settled, other \in Running :
        /\ Key(other) = Key(done)
        /\ done.pc = "resolved"
        /\ done.requests = 1
        /\ other.pc = "awaitProcess"
        /\ now > 0
        /\ ordersEntryMap[Key(done)].lastRefreshTime = now
        /\ \E key \in DOMAIN ordersEntryMap :
              /\ key # Key(done)
              /\ ordersEntryMap[key].lastRefreshTime < now

\* the key of the pair a quote is asked for, and of its fee pair
PrimaryKey(c) == _getOrdersEntryMapKey(c.makerAssetData, c.takerAssetData)

FeeKey(c) == _getOrdersEntryMapKey(zrxTokenAssetData, c.takerAssetData)

\* the entry of the key is within the refresh window
InWindow(key) ==
    /\ key \in DOMAIN ordersEntryMap
    /\ now - ordersEntryMap[key].lastRefreshTime <= orderRefreshIntervalMs

\* a getBuyQuoteAsync call has just been made, without force, for a pair
\* whose entry is the empty order set and is within the refresh window,
\* while the fee pair has an entry too
QuoteAskedOnEmptyEntry ==
    /\ call.op = "getBuyQuoteAsync"
    /\ called # {}
    /\ ~call.shouldForceOrderRefresh
    /\ InWindow(PrimaryKey(call))
    /\ ordersEntryMap[PrimaryKey(call)].ordersAndFillableAmounts
          = EMPTY_ORDERS_AND_FILLABLE_AMOUNTS
    /\ FeeKey(call) \in DOMAIN ordersEntryMap

\* a quote that has failed with AssetUnavailable leaves the entries of its
\* primary pair and, unless the asset bought is ZRX, of its fee pair
UnavailableLeavesEntries ==
    (finished.op = "getBuyQuoteAsync"
       /\ finished.error = "AssetUnavailable")
    => /\ PrimaryKey(finished) \in DOMAIN ordersEntryMap
       /\ finished.makerAssetData # zrxTokenAssetData
            => FeeKey(finished) \in DOMAIN ordersEntryMap

\* C23 as stated: a quote that failed with AssetUnavailable leaves the
\* entries of its pairs, and a quote asked without force while the empty
\* entry of its primary pair is within the refresh window issues no
\* provider request.
C23_EmptyEntryQuoteIssuesNoRequest ==
    /\ UnavailableLeavesEntries
    /\ QuoteAskedOnEmptyEntry
         => /\ call.requests = 0
            /\ \A task \in Awaited : task.requests = 0

\* C23: a quote that failed with AssetUnavailable leaves the entries of
\* its pairs.  A quote asked without force while the empty entry of its
\* primary pair is within the refresh window issues no provider request
\* when the asset bought is ZRX or the entry of the fee pair is within the
\* refresh window as well, and then it has the empty set at once and ends
\* with AssetUnavailable, no request issued and the cache as it was; when
\* the entry of the fee pair is older than the window, the quote issues
\* one request, for the fee pair.
C23_EmptyEntryQuoteIssuesNoRequestWhenFeeEntryFresh ==
    /\ []UnavailableLeavesEntries
    /\ []((QuoteAskedOnEmptyEntry
             /\ (call.makerAssetData = zrxTokenAssetData
                   \/ InWindow(FeeKey(call))))
           => /\ call.requests = 0
              /\ \A task \in Awaited :
                    task.pc = "resolved" /\ task.requests = 0
              /\ Resolved("primary") = EMPTY_ORDERS_AND_FILLABLE_AMOUNTS)
    /\ []((QuoteAskedOnEmptyEntry
             /\ call.makerAssetData # zrxTokenAssetData
             /\ ~InWindow(FeeKey(call)))
           => /\ call.requests = 1
              /\ \E task \in Awaited :
                    /\ task.slot = "fee"
                    /\ task.pc = "awaitResponse"
                    /\ task.requests = 1)
    /\ [][(/\ call.op = "getBuyQuoteAsync"
            /\ call' = NoCall
            /\ \A task \in Awaited : task.pc = "resolved"
            /\ Resolved("primary") = EMPTY_ORDERS_AND_FILLABLE_AMOUNTS)
           => /\ finished'.outcome = "threw"
              /\ finished'.error = "AssetUnavailable"
              /\ finished'.requests = call.requests
              /\ finished'.calculateCalls = << >>
              /\ ordersEntryMap' = ordersEntryMap]_vars

\* a quote for an asset other than ZRX has ended with AssetUnavailable
\* without a request, served the empty entry of its pair that an earlier
\* fetch had stored
C23_Witness ==
    /\ finished.op = "getBuyQuoteAsync"
    /\ finished.error = "AssetUnavailable"
    /\ finished.requests = 0
    /\ ~finished.shouldForceOrderRefresh
    /\ finished.makerAssetData # zrxTokenAssetData
    /\ InWindow(PrimaryKey(finished))
    /\ InWindow(FeeKey(finished))
    /\ ordersEntryMap[PrimaryKey(finished)].ordersAndFillableAmounts
          = EMPTY_ORDERS_AND_FILLABLE_AMOUNTS
====
